---- MODULE Spec2Model ----
(***************************************************************************)
(* blockly-parser-rs, src/lib.rs: program_from_xml and the constructors it *)
(* calls (StatementBody::new, Block::new, FieldValue::new), as a stack     *)
(* machine over a parsed document.                                         *)
(*                                                                         *)
(* A document is the node tree sxd_document hands to the code, written as  *)
(* a sequence of nodes in document (pre-)order: node i is                  *)
(*   [kind, name, attrs, text, parent]                                     *)
(* with kind one of "Element", "Text", "Comment" (the ChildOfElement       *)
(* variants the code can meet), name the local part of an element's name,  *)
(* attrs the sequence of [name, value] attributes, text the content of a   *)
(* text node and parent the index of the parent node (0: the document      *)
(* root).  Attribute names are distinct within one element.                *)
(*                                                                         *)
(* The text is taken as parsed: parser::parse and its expect (line 135)    *)
(* are not part of the model.                                              *)
(*                                                                         *)
(* A panic of the Rust code (panic!, unwrap on None) ends the call with no *)
(* value: outcome = "panicked" and panic holds the message.  Two history   *)
(* values are kept for the properties: panic.element, the element whose    *)
(* handling panicked, and built, the elements Block::new was called on.    *)
(***************************************************************************)
EXTENDS Integers, Sequences, FiniteSets, TLC

VARIABLES doc, stack, outcome, result, panic, built

vars == <<doc, stack, outcome, result, panic, built>>

----------------------------------------------------------------------------
(* Bounds of the document families *)

MaxChainNodes == 5
MaxFieldNodes == 4
MaxDupNodes == 6
MaxErrNodes == 5
MaxAttrs == 3

----------------------------------------------------------------------------
(* The document tree: sxd_document::dom as the code uses it *)

None == 0

\* element.children(): the child nodes of node p, in document order
Children(d, p) ==
    LET RECURSIVE From(_)
        From(i) == IF i > Len(d) THEN <<>>
                   ELSE IF d[i].parent = p THEN <<i>> \o From(i + 1)
                   ELSE From(i + 1)
    IN From(1)

IsElement(d, i) == d[i].kind = "Element"

\* the first index of sequence s whose entry satisfies the set membership, or None
FirstIn(s, S) ==
    LET RECURSIVE Scan(_)
        Scan(k) == IF k > Len(s) THEN None
                   ELSE IF s[k] \in S THEN s[k]
                   ELSE Scan(k + 1)
    IN Scan(1)

ElementsNamed(d, n) == {i \in 1..Len(d) : IsElement(d, i) /\ d[i].name = n}

AllElements(d) == {i \in 1..Len(d) : IsElement(d, i)}

----------------------------------------------------------------------------
(* General DOM utilities, lib.rs 185-217 *)

\* get_xml_element: the first child element of the document root named "xml"
get_xml_element(d) == FirstIn(Children(d, 0), ElementsNamed(d, "xml"))

\* a variant that looks for a "block" child only
get_first_child_element_BlockOnly(d, element) ==
    FirstIn(Children(d, element), ElementsNamed(d, "block"))

\* get_first_child_element
get_first_child_element(d, element) == FirstIn(Children(d, element), AllElements(d))

\* a variant that takes a missing attribute for an empty one
get_attribute_Lenient(d, element, attribute_name) ==
    LET found == {k \in DOMAIN d[element].attrs :
                     d[element].attrs[k].name = attribute_name}
    IN IF found = {} THEN [some |-> TRUE, value |-> ""]
       ELSE [some |-> TRUE,
             value |-> d[element].attrs[CHOOSE k \in found : \A j \in found : k <= j].value]

\* get_attribute: the value of the first attribute with that local name
get_attribute(d, element, attribute_name) ==
    LET as == d[element].attrs
        RECURSIVE Scan(_)
        Scan(k) == IF k > Len(as) THEN [some |-> FALSE, value |-> ""]
                   ELSE IF as[k].name = attribute_name
                        THEN [some |-> TRUE, value |-> as[k].value]
                   ELSE Scan(k + 1)
    IN Scan(1)

\* a variant that takes the first child element of the "next" child, whatever its name
get_next_block_element_AnyChild(d, block_el) ==
    LET next_el == FirstIn(Children(d, block_el), ElementsNamed(d, "next"))
    IN IF next_el # None
       THEN FirstIn(Children(d, next_el), AllElements(d))
       ELSE None

\* a variant whose second loop runs over the children of the block's parent
get_next_block_element_WrongParent(d, block_el) ==
    LET next_el == FirstIn(Children(d, block_el), ElementsNamed(d, "next"))
    IN IF next_el # None
       THEN FirstIn(Children(d, d[block_el].parent), ElementsNamed(d, "block"))
       ELSE None

\* get_next_block_element: the first "block" child of the first "next" child
get_next_block_element(d, block_el) ==
    LET next_el == FirstIn(Children(d, block_el), ElementsNamed(d, "next"))
    IN IF next_el # None
       THEN FirstIn(Children(d, next_el), ElementsNamed(d, "block"))
       ELSE None

----------------------------------------------------------------------------
(* Documents the model checks: families of trees, each grown node by node  *)
(* in document order from a seed, the children a node may get given by its *)
(* element name.                                                           *)

Elem(n, as) == [kind |-> "Element", name |-> n, attrs |-> as, text |-> "", parent |-> 0]
TextNode(t) == [kind |-> "Text", name |-> "", attrs |-> <<>>, text |-> t, parent |-> 0]
CommentNode == [kind |-> "Comment", name |-> "", attrs |-> <<>>, text |-> "", parent |-> 0]
Attr(n, v) == [name |-> n, value |-> v]

\* an id attribute whose value is the node's own number, set when the node is placed
OwnId == <<Attr("id", "#")>>
Named(n) == <<Attr("name", n)>>

Place(t, p, i) ==
    [t EXCEPT !.parent = p,
              !.attrs = [k \in DOMAIN t.attrs |->
                            IF t.attrs[k].value = "#"
                            THEN Attr(t.attrs[k].name, ToString(i))
                            ELSE t.attrs[k]]]

\* the last node and its ancestors: where the next node in document order may hang
RightPath(d) ==
    LET RECURSIVE Up(_)
        Up(i) == IF i = 0 THEN {} ELSE {i} \cup Up(d[i].parent)
    IN Up(Len(d))

Extend(d, G) ==
    UNION { IF IsElement(d, p) /\ d[p].name \in DOMAIN G
            THEN {Append(d, Place(t, p, Len(d) + 1)) : t \in G[d[p].name]}
            ELSE {}
          : p \in RightPath(d) }

\* doc is a seed d or adds at most k nodes to it
RECURSIVE Grown(_, _, _)
Grown(d, G, k) ==
    \/ doc = d
    \/ k > 0 /\ \E e \in Extend(d, G) : Grown(e, G, k - 1)

XmlSeed == {<<Elem("xml", <<>>)>>}

\* chains, statement slots and top-level children
ChainGrammar ==
    [xml |-> {Elem("block", OwnId), Elem("variables", <<>>), TextNode(" "), CommentNode},
     block |-> {Elem("next", <<>>), Elem("statement", Named("BODY")),
                Elem("statement", Named("ELSE"))},
     next |-> {Elem("block", OwnId), Elem("shadow", OwnId)},
     statement |-> {Elem("block", OwnId), Elem("shadow", OwnId), TextNode(" ")}]

\* a document whose root element is not the container, and one with a comment
\* before the container
RootSeeds == {<<Elem("block", OwnId)>>, <<CommentNode, Elem("xml", <<>>)>>}

BlockSeed == {<<Elem("xml", <<>>), Place(Elem("block", OwnId), 1, 2)>>}

\* fields of one block: with and without a name; text, element and comment children
FieldGrammar ==
    [block |-> {Elem("field", Named("A")), Elem("field", <<>>)},
     field |-> {TextNode("1"), TextNode("2"), Elem("block", OwnId), CommentNode}]

\* fields of one block whose names repeat
DupGrammar ==
    [block |-> {Elem("field", Named("A")), Elem("field", Named("B"))},
     field |-> {TextNode("1"), TextNode("2")}]

\* several places that fail, before and after a next child
ErrGrammar ==
    [block |-> {Elem("next", <<>>), Elem("statement", <<>>),
                Elem("statement", Named("S")), Elem("field", Named("A"))},
     next |-> {Elem("block", OwnId)},
     statement |-> {Elem("block", OwnId)},
     field |-> {TextNode("1"), Elem("block", OwnId)}]

\* the sequences of at most n attributes with distinct names
RECURSIVE AttrSeqs(_)
AttrSeqs(n) ==
    IF n = 0 THEN {<<>>}
    ELSE LET shorter == AttrSeqs(n - 1)
         IN shorter \cup
            {Append(as, Attr(a, v)) :
                as \in {x \in shorter : Len(x) = n - 1},
                a \in {"type", "id", "name", "x"}, v \in {"a", "b"}}

DistinctNames(as) == \A i, j \in DOMAIN as : as[i].name = as[j].name => i = j

\* one block with any attributes, in any order
AttrDocs ==
    {<<Elem("xml", <<>>), [Elem("block", as) EXCEPT !.parent = 1]>> :
        as \in {x \in AttrSeqs(MaxAttrs) : DistinctNames(x)}}

\* the documents of the model
IsDoc ==
    \/ \E d \in XmlSeed : Grown(d, ChainGrammar, MaxChainNodes)
    \/ \E d \in RootSeeds : Grown(d, ChainGrammar, 1)
    \/ \E d \in BlockSeed : Grown(d, FieldGrammar, MaxFieldNodes)
    \/ \E d \in BlockSeed : Grown(d, DupGrammar, MaxDupNodes)
    \/ \E d \in BlockSeed : Grown(d, ErrGrammar, MaxErrNodes)
    \/ doc \in AttrDocs

----------------------------------------------------------------------------

(* Values the code builds, lib.rs 17-39 *)

\* HashMap::new() and HashMap::insert (the later value replaces the earlier)
EmptyMap == [k \in {} |-> None]

\* a variant that keeps the entry a key already has
Insert_KeepFirst(m, key, v) ==
    [k \in DOMAIN m \cup {key} |-> IF k \in DOMAIN m THEN m[k] ELSE v]

Insert(m, key, v) == [k \in DOMAIN m \cup {key} |-> IF k = key THEN v ELSE m[k]]

SimpleField(t) == [variant |-> "SimpleField", text |-> t]

\* Program::new
ProgramNew == [groups |-> <<>>]

\* what the caller holds while the call has returned nothing
NoValue == [some |-> FALSE, program |-> ProgramNew]

NoPanic == [message |-> "", element |-> None]

\* the messages of the panics the code can raise
MissingRootElement == "Cannot find xml element!"
MissingAttribute == "called Option::unwrap() on a None value"
UnimplementedExpressionField == "TODO: Implement expression fields"
EmptyField == "Expected child nodes for field"

----------------------------------------------------------------------------
(* FieldValue::new, lib.rs 116-127: the loop body returns or panics on the *)
(* first child, whatever it is; with no child the loop is skipped.         *)

\* a variant that gives an empty field the empty text
FieldValueNew_Defaulting(d, field_el) ==
    LET children == Children(d, field_el)
    IN IF children = <<>>
       THEN [panicked |-> FALSE, message |-> "", value |-> SimpleField("")]
       ELSE IF d[Head(children)].kind = "Text"
            THEN [panicked |-> FALSE, message |-> "",
                  value |-> SimpleField(d[Head(children)].text)]
            ELSE [panicked |-> TRUE, message |-> UnimplementedExpressionField,
                  value |-> None]

FieldValueNew(d, field_el) ==
    LET children == Children(d, field_el)
    IN IF children = <<>>
       THEN [panicked |-> TRUE, message |-> EmptyField, value |-> None]
       ELSE IF d[Head(children)].kind = "Text"
            THEN [panicked |-> FALSE, message |-> "",
                  value |-> SimpleField(d[Head(children)].text)]
            ELSE [panicked |-> TRUE, message |-> UnimplementedExpressionField,
                  value |-> None]

----------------------------------------------------------------------------
(* Block::new, lib.rs 72-112 *)

\* lines 73-78
BlockInit == [block_type |-> "", id |-> "", fields |-> EmptyMap, statements |-> EmptyMap]

\* a variant without the "id" arm
BlockAttributes_NoId(d, block_el, block) ==
    LET as == d[block_el].attrs
        RECURSIVE Scan(_, _)
        Scan(k, b) ==
            IF k > Len(as) THEN b
            ELSE IF as[k].name = "type"
                 THEN Scan(k + 1, [b EXCEPT !.block_type = as[k].value])
            ELSE Scan(k + 1, b)
    IN Scan(1, block)

\* lines 80-88: one pass over the attributes
BlockAttributes(d, block_el, block) ==
    LET as == d[block_el].attrs
        RECURSIVE Scan(_, _)
        Scan(k, b) ==
            IF k > Len(as) THEN b
            ELSE IF as[k].name = "type"
                 THEN Scan(k + 1, [b EXCEPT !.block_type = as[k].value])
            ELSE IF as[k].name = "id"
                 THEN Scan(k + 1, [b EXCEPT !.id = as[k].value])
            ELSE Scan(k + 1, b)
    IN Scan(1, block)

----------------------------------------------------------------------------
(* Stack frames: one per active call *)

ProgramFrame(xml_element) ==
    [fn |-> "program_from_xml", rest |-> Children(doc, xml_element),
     program |-> ProgramNew]

\* StatementBody::new(first_block), lines 50-55: with None the loop is skipped
StatementBodyFrame(first_block) ==
    [fn |-> "StatementBody::new", first_block |-> first_block,
     block_el |-> first_block, blocks |-> <<>>,
     pc |-> IF first_block = None THEN "ret" ELSE "call"]

BlockFrame(block_el) ==
    [fn |-> "Block::new", block_el |-> block_el, rest |-> <<>>,
     block |-> BlockInit, statement_name |-> "", pc |-> "attributes"]

Top == stack[Len(stack)]

Below == SubSeq(stack, 1, Len(stack) - 1)

Running == outcome = "running" /\ stack # <<>>

\* a variant that hands back what was built so far
Panics_Partial(message, element) ==
    /\ outcome' = "returned"
    /\ result' = [some |-> TRUE,
                  program |-> IF stack = <<>> THEN ProgramNew ELSE stack[1].program]
    /\ stack' = <<>>
    /\ UNCHANGED <<doc, panic, built>>

\* a panic unwinds the whole call: panic! (lines 123, 126, 196), unwrap (96, 102)
Panics(message, element) ==
    /\ outcome' = "panicked"
    /\ panic' = [message |-> message, element |-> element]
    /\ stack' = <<>>
    /\ UNCHANGED <<doc, result, built>>

----------------------------------------------------------------------------

Init ==
    /\ IsDoc
    /\ stack = <<>>
    /\ outcome = "called"
    /\ result = NoValue
    /\ panic = NoPanic
    /\ built = <<>>

\* program_from_xml, lines 133-138: parse, find the root container
Call ==
    /\ outcome = "called"
    /\ LET xml_element == get_xml_element(doc)
       IN IF xml_element = None
          THEN Panics(MissingRootElement, None)
          ELSE /\ outcome' = "running"
               /\ stack' = <<ProgramFrame(xml_element)>>
               /\ UNCHANGED <<doc, result, panic, built>>

\* a variant that takes every child element for a block
IsTopLevelBlock_AnyElement(d, child) == IsElement(d, child)

\* the match of lines 141-149
IsTopLevelBlock(d, child) == IsElement(d, child) /\ d[child].name = "block"

\* program_from_xml, lines 140-151: one child of the root container
TopLevelChild ==
    /\ Running
    /\ Top.fn = "program_from_xml"
    /\ Top.rest # <<>>
    /\ LET child == Head(Top.rest)
           here == [Top EXCEPT !.rest = Tail(Top.rest)]
       IN stack' = IF IsTopLevelBlock(doc, child)
                   THEN Below \o <<here, StatementBodyFrame(child)>>
                   ELSE Below \o <<here>>
    /\ UNCHANGED <<doc, outcome, result, panic, built>>

\* program_from_xml, line 153
Return ==
    /\ Running
    /\ Top.fn = "program_from_xml"
    /\ Top.rest = <<>>
    /\ outcome' = "returned"
    /\ result' = [some |-> TRUE, program |-> Top.program]
    /\ stack' = <<>>
    /\ UNCHANGED <<doc, panic, built>>

\* StatementBody::new, line 57: Block::new(block_el) is called
CallBlockNew ==
    /\ Running
    /\ Top.fn = "StatementBody::new"
    /\ Top.pc = "call"
    /\ stack' = Append(stack, BlockFrame(Top.block_el))
    /\ built' = Append(built, Top.block_el)
    /\ UNCHANGED <<doc, outcome, result, panic>>

\* Block::new, lines 73-88
ScanAttributes ==
    /\ Running
    /\ Top.fn = "Block::new"
    /\ Top.pc = "attributes"
    /\ stack' = Below \o <<[Top EXCEPT
                              !.block = BlockAttributes(doc, Top.block_el, Top.block),
                              !.rest = Children(doc, Top.block_el),
                              !.pc = "children"]>>
    /\ UNCHANGED <<doc, outcome, result, panic, built>>

\* Block::new, lines 90-109: one child of the block element
BlockChild ==
    /\ Running
    /\ Top.fn = "Block::new"
    /\ Top.pc = "children"
    /\ Top.rest # <<>>
    /\ LET child_el == Head(Top.rest)
           here == [Top EXCEPT !.rest = Tail(Top.rest)]
           child_name == doc[child_el].name
           name == get_attribute(doc, child_el, "name")
           field_value == FieldValueNew(doc, child_el)
       IN IF IsElement(doc, child_el) /\ child_name = "statement"
          THEN IF ~name.some
               THEN Panics(MissingAttribute, child_el)
               ELSE /\ stack' = Below \o
                        <<[here EXCEPT !.statement_name = name.value],
                          StatementBodyFrame(get_first_child_element(doc, child_el))>>
                    /\ UNCHANGED <<doc, outcome, result, panic, built>>
          ELSE IF IsElement(doc, child_el) /\ child_name = "field"
          THEN IF ~name.some
               THEN Panics(MissingAttribute, child_el)
               ELSE IF field_value.panicked
               THEN Panics(field_value.message, child_el)
               ELSE /\ stack' = Below \o
                        <<[here EXCEPT !.block.fields =
                               Insert(Top.block.fields, name.value, field_value.value)]>>
                    /\ UNCHANGED <<doc, outcome, result, panic, built>>
          ELSE /\ stack' = Below \o <<here>>
               /\ UNCHANGED <<doc, outcome, result, panic, built>>

\* Block::new, line 111: the loop over the children is over
BlockDone ==
    /\ Running
    /\ Top.fn = "Block::new"
    /\ Top.pc = "children"
    /\ Top.rest = <<>>
    /\ stack' = Below \o <<[Top EXCEPT !.pc = "ret"]>>
    /\ UNCHANGED <<doc, outcome, result, panic, built>>

\* StatementBody::new, line 57: blocks.push of the block Block::new returned
PushBlock ==
    /\ Running
    /\ Top.fn = "Block::new"
    /\ Top.pc = "ret"
    /\ LET caller == stack[Len(stack) - 1]
       IN stack' = SubSeq(stack, 1, Len(stack) - 2) \o
                   <<[caller EXCEPT !.blocks = Append(caller.blocks, Top.block),
                                    !.pc = "advance"]>>
    /\ UNCHANGED <<doc, outcome, result, panic, built>>

\* StatementBody::new, lines 58-62
Advance ==
    /\ Running
    /\ Top.fn = "StatementBody::new"
    /\ Top.pc = "advance"
    /\ LET next_block == get_next_block_element(doc, Top.block_el)
       IN stack' = Below \o
                   <<IF next_block # None
                     THEN [Top EXCEPT !.block_el = next_block, !.pc = "call"]
                     ELSE [Top EXCEPT !.pc = "ret"]>>
    /\ UNCHANGED <<doc, outcome, result, panic, built>>

\* StatementBody::new, lines 65-67, and what the caller does with the value:
\* program.groups.push (line 145) or block.statements.insert (line 98)
StatementBodyReturn ==
    /\ Running
    /\ Top.fn = "StatementBody::new"
    /\ Top.pc = "ret"
    /\ LET caller == stack[Len(stack) - 1]
           statement_body == [blocks |-> Top.blocks]
       IN stack' = SubSeq(stack, 1, Len(stack) - 2) \o
                   <<IF caller.fn = "program_from_xml"
                     THEN [caller EXCEPT !.program.groups =
                               Append(caller.program.groups, statement_body)]
                     ELSE [caller EXCEPT !.block.statements =
                               Insert(caller.block.statements,
                                      caller.statement_name, statement_body)]>>
    /\ UNCHANGED <<doc, outcome, result, panic, built>>

Next ==
    \/ Call
    \/ TopLevelChild
    \/ Return
    \/ CallBlockNew
    \/ ScanAttributes
    \/ BlockChild
    \/ BlockDone
    \/ PushBlock
    \/ Advance
    \/ StatementBodyReturn

Spec == Init /\ [][Next]_vars

\* the code runs to completion: no step waits on anything
FairSpec == Spec /\ WF_vars(Next)

----------------------------------------------------------------------------
(* What the claims speak of, stated on the document alone *)

Min(S) == CHOOSE x \in S : \A y \in S : x <= y

Kids(d, p) == {i \in 1..Len(d) : d[i].parent = p}

ElementKids(d, p) == {i \in Kids(d, p) : d[i].kind = "Element"}

KidsNamed(d, p, n) == {i \in ElementKids(d, p) : d[i].name = n}

HasAttr(d, el, n) == \E k \in DOMAIN d[el].attrs : d[el].attrs[k].name = n

\* the value of the attribute named n, or the empty string
AttrOrEmpty(d, el, n) ==
    IF HasAttr(d, el, n)
    THEN d[el].attrs[CHOOSE k \in DOMAIN d[el].attrs : d[el].attrs[k].name = n].value
    ELSE ""

RECURSIVE IsAncestor(_, _, _)
IsAncestor(d, a, i) ==
    i # 0 /\ (d[i].parent = a \/ IsAncestor(d, a, d[i].parent))

\* the root container: the first "xml" element under the document root
RootContainer(d) == Min(KidsNamed(d, 0, "xml"))

\* the successor of an element in a chain
Successor(d, el) ==
    IF KidsNamed(d, el, "next") = {} THEN None
    ELSE LET wrapper == Min(KidsNamed(d, el, "next"))
         IN IF KidsNamed(d, wrapper, "block") = {} THEN None
            ELSE Min(KidsNamed(d, wrapper, "block"))

RECURSIVE ChainFrom(_, _)
ChainFrom(d, el) ==
    IF el = None THEN <<>> ELSE <<el>> \o ChainFrom(d, Successor(d, el))

\* where a statement slot's chain starts
SlotStart(d, statement_el) ==
    IF ElementKids(d, statement_el) = {} THEN None
    ELSE Min(ElementKids(d, statement_el))

IdsOfElements(d, els) == [k \in DOMAIN els |-> AttrOrEmpty(d, els[k], "id")]

IdsOfBlocks(blocks) == [k \in DOMAIN blocks |-> blocks[k].id]

\* the last child of element p with this element name and "name" attribute
LastNamed(d, p, element_name, n) ==
    CHOOSE c \in KidsNamed(d, p, element_name) :
        /\ AttrOrEmpty(d, c, "name") = n
        /\ \A c2 \in KidsNamed(d, p, element_name) :
               AttrOrEmpty(d, c2, "name") = n => c2 <= c

NamesOf(d, p, element_name) ==
    {AttrOrEmpty(d, c, "name") : c \in KidsNamed(d, p, element_name)}

AtBlockReturn == Running /\ Top.fn = "Block::new" /\ Top.pc = "ret"

AtStatementBodyReturn == Running /\ Top.fn = "StatementBody::new" /\ Top.pc = "ret"

----------------------------------------------------------------------------
(* Failures, stated on the document *)

\* the elements Block::new is called on when nothing fails: the "block"
\* children of the root container, the successors of such elements and the
\* first child elements of their statement children
RECURSIVE IsBuilt(_, _)
IsBuilt(d, i) ==
    /\ d[i].kind = "Element"
    /\ LET p == d[i].parent
       IN /\ p # 0
          /\ \/ KidsNamed(d, 0, "xml") # {} /\ p = RootContainer(d) /\ d[i].name = "block"
             \/ /\ d[p].kind = "Element"
                /\ d[p].name = "next"
                /\ d[p].parent # 0
                /\ Successor(d, d[p].parent) = i
                /\ IsBuilt(d, d[p].parent)
             \/ /\ d[p].kind = "Element"
                /\ d[p].name = "statement"
                /\ d[p].parent # 0
                /\ SlotStart(d, p) = i
                /\ IsBuilt(d, d[p].parent)

\* the statement and field children of the elements that are built
Slots(d) ==
    {c \in 1..Len(d) :
        /\ d[c].kind = "Element"
        /\ d[c].name \in {"statement", "field"}
        /\ d[c].parent # 0
        /\ IsBuilt(d, d[c].parent)}

LacksName(d, c) == ~HasAttr(d, c, "name")

IsEmptyField(d, c) == d[c].name = "field" /\ Kids(d, c) = {}

FirstKidIs(d, c, kinds) == Kids(d, c) # {} /\ d[Min(Kids(d, c))].kind \in kinds

\* the first child that is a text node or an element node, if any
FirstMatch(d, c) ==
    LET matches == {k \in Kids(d, c) : d[k].kind \in {"Text", "Element"}}
    IN IF matches = {} THEN None ELSE Min(matches)

\* where building fails: no name, an empty field, a field that does not start
\* with text
Failing(d) ==
    {c \in Slots(d) :
        \/ LacksName(d, c)
        \/ IsEmptyField(d, c)
        \/ d[c].name = "field" /\ FirstKidIs(d, c, {"Element", "Comment"})}

\* the failures C6 lists
ListedFailures(d) ==
    {c \in Slots(d) :
        \/ LacksName(d, c)
        \/ IsEmptyField(d, c)
        \/ d[c].name = "field" /\ FirstKidIs(d, c, {"Element"})}

Range(s) == {s[k] : k \in DOMAIN s}

\* the children of a Block::new frame's element that its loop has passed
Passed(frame) == Kids(doc, frame.block_el) \ Range(frame.rest)

----------------------------------------------------------------------------
TopLevelBlocks(d) ==
    LET IsBlock(i) == d[i].kind = "Element" /\ d[i].name = "block"
    IN SelectSeq(Children(d, RootContainer(d)), IsBlock)

(* C1: when the root container is found, the call fails only at a          *)
(* statement or field child of an element it builds, and a returned        *)
(* Program has one group per direct child element of the container named   *)
(* "block", in document order, each starting with the block built from     *)
(* that child; no other child of the container and no deeper block forms a *)
(* group.                                                                  *)

C1_GroupsAreTopLevelBlocks ==
    /\ outcome = "panicked" /\ KidsNamed(doc, 0, "xml") # {} =>
           panic.element \in Failing(doc)
    /\ outcome = "returned" =>
           /\ Len(result.program.groups) = Len(TopLevelBlocks(doc))
           /\ \A g \in DOMAIN result.program.groups :
                  /\ result.program.groups[g].blocks # <<>>
                  /\ result.program.groups[g].blocks[1].id =
                         AttrOrEmpty(doc, TopLevelBlocks(doc)[g], "id")

\* two groups, beside a variables element, with a block nested under the first
C1_Witness ==
    /\ outcome = "returned"
    /\ Len(result.program.groups) = 2
    /\ KidsNamed(doc, RootContainer(doc), "variables") # {}
    /\ \E b \in 1..Len(doc) :
           /\ doc[b].name = "block"
           /\ doc[b].parent # RootContainer(doc)
           /\ b < TopLevelBlocks(doc)[2]

(* C2: StatementBody::new started at an element returns the blocks of the  *)
(* chain from that element, in chain order: the element, its successor,    *)
(* and so on while there is a successor.                                   *)

C2_ChainOrder ==
    AtStatementBodyReturn /\ Top.first_block # None =>
        IdsOfBlocks(Top.blocks) = IdsOfElements(doc, ChainFrom(doc, Top.first_block))

\* a chain B1 -> B2 -> B3 has been resolved
C2_Witness ==
    /\ AtStatementBodyReturn
    /\ Len(Top.blocks) = 3
    /\ Top.blocks[1].id # Top.blocks[2].id
    /\ Top.blocks[2].id # Top.blocks[3].id

(* C7: Block::new returns fields with one entry per name among the field   *)
(* children, holding the value of the last child of that name, and         *)
(* statements with one entry per name among the statement children,        *)
(* holding the chain of the last child of that name.                       *)

C7_LastWins ==
    AtBlockReturn =>
        LET el == Top.block_el
        IN /\ DOMAIN Top.block.fields = NamesOf(doc, el, "field")
           /\ \A n \in NamesOf(doc, el, "field") :
                  LET last == LastNamed(doc, el, "field", n)
                  IN Top.block.fields[n] =
                         [variant |-> "SimpleField", text |-> doc[Min(Kids(doc, last))].text]
           /\ DOMAIN Top.block.statements = NamesOf(doc, el, "statement")
           /\ \A n \in NamesOf(doc, el, "statement") :
                  LET last == LastNamed(doc, el, "statement", n)
                  IN IdsOfBlocks(Top.block.statements[n].blocks) =
                         IdsOfElements(doc, ChainFrom(doc, SlotStart(doc, last)))

\* two fields of one name with different texts, and a field of another name
C7_Witness ==
    /\ AtBlockReturn
    /\ DOMAIN Top.block.fields = {"A", "B"}
    /\ \E f1, f2 \in KidsNamed(doc, Top.block_el, "field") :
           /\ f1 < f2
           /\ AttrOrEmpty(doc, f1, "name") = "A"
           /\ AttrOrEmpty(doc, f2, "name") = "A"
           /\ doc[Min(Kids(doc, f1))].text # doc[Min(Kids(doc, f2))].text

(* C8: Block::new sets block_type to the value of the "type" attribute and *)
(* id to the value of the "id" attribute, each the empty string when the   *)
(* attribute is absent; no other attribute changes the block, and no       *)
(* attribute of the block element makes the call fail.                     *)

C8_TypeAndId ==
    /\ AtBlockReturn =>
           /\ Top.block.block_type = AttrOrEmpty(doc, Top.block_el, "type")
           /\ Top.block.id = AttrOrEmpty(doc, Top.block_el, "id")
           /\ Kids(doc, Top.block_el) = {} =>
                  Top.block = [block_type |-> AttrOrEmpty(doc, Top.block_el, "type"),
                               id |-> AttrOrEmpty(doc, Top.block_el, "id"),
                               fields |-> EmptyMap, statements |-> EmptyMap]
    /\ doc \in AttrDocs => outcome # "panicked"

\* a block with an id, no type and an attribute of another name
C8_Witness ==
    /\ AtBlockReturn
    /\ HasAttr(doc, Top.block_el, "x")
    /\ HasAttr(doc, Top.block_el, "name")
    /\ ~HasAttr(doc, Top.block_el, "type")
    /\ Top.block.id = "b"
    /\ Top.block.block_type = ""

(* C9: for a statement child named n (the last of that name), Block::new   *)
(* stores under statements[n] the chain from the statement's first child   *)
(* element, whatever its name, and an empty sequence when the statement    *)
(* has no child element; the blocks of a slot's chain are in the slot, not *)
(* in the statements of the slot's first block.                            *)

C9_SlotHoldsChainOfFirstChild ==
    AtBlockReturn =>
        \A n \in NamesOf(doc, Top.block_el, "statement") :
            LET s == LastNamed(doc, Top.block_el, "statement", n)
                chain == ChainFrom(doc, SlotStart(doc, s))
            IN /\ n \in DOMAIN Top.block.statements
               /\ Len(Top.block.statements[n].blocks) = Len(chain)
               /\ \A k \in DOMAIN chain :
                      LET inner == Top.block.statements[n].blocks[k]
                      IN /\ inner.id = AttrOrEmpty(doc, chain[k], "id")
                         /\ DOMAIN inner.statements = NamesOf(doc, chain[k], "statement")

\* a slot whose first child element is not a block and is followed by another
\* element, beside a slot with no child element
C9_Witness ==
    /\ AtBlockReturn
    /\ \E s \in KidsNamed(doc, Top.block_el, "statement") :
           /\ Cardinality(ElementKids(doc, s)) = 2
           /\ doc[SlotStart(doc, s)].name = "shadow"
    /\ \E n \in DOMAIN Top.block.statements : Top.block.statements[n].blocks = <<>>

----------------------------------------------------------------------------
(* C3: FieldValue::new takes the first child that is a text node or an     *)
(* element node, skipping any other child; when that is a text node the    *)
(* field is the SimpleField of its text, and the call does not fail.       *)

C3_FirstTextOrElementDecides ==
    /\ outcome = "panicked" /\ panic.element # None =>
           LET f == panic.element
           IN doc[f].name = "field" /\ HasAttr(doc, f, "name") =>
                  ~(FirstMatch(doc, f) # None /\ doc[FirstMatch(doc, f)].kind = "Text")
    /\ AtBlockReturn =>
           \A n \in NamesOf(doc, Top.block_el, "field") :
               LET last == LastNamed(doc, Top.block_el, "field", n)
               IN FirstMatch(doc, last) # None /\ doc[FirstMatch(doc, last)].kind = "Text" =>
                      /\ n \in DOMAIN Top.block.fields
                      /\ Top.block.fields[n] =
                             [variant |-> "SimpleField", text |-> doc[FirstMatch(doc, last)].text]

(* C4: a field with no children fails with EmptyField and a field whose    *)
(* first child is an element fails with UnimplementedExpressionField; no   *)
(* value is produced for such a field.                                     *)

C4_EmptyAndExpressionFieldsFail ==
    /\ outcome = "panicked" /\ panic.element # None =>
           LET f == panic.element
           IN doc[f].name = "field" /\ HasAttr(doc, f, "name") =>
                  /\ IsEmptyField(doc, f) => panic.message = EmptyField
                  /\ FirstKidIs(doc, f, {"Element"}) =>
                         panic.message = UnimplementedExpressionField
    /\ \A k \in DOMAIN stack :
           stack[k].fn = "Block::new" /\ stack[k].pc # "attributes" =>
               /\ \A c \in Passed(stack[k]) \cap KidsNamed(doc, stack[k].block_el, "field") :
                      ~IsEmptyField(doc, c) /\ ~FirstKidIs(doc, c, {"Element"})
               /\ \A n \in DOMAIN stack[k].block.fields :
                      stack[k].block.fields[n].variant = "SimpleField"

\* the call failed at a field that starts with an element and holds text after it
C4_Witness ==
    /\ outcome = "panicked"
    /\ panic.message = UnimplementedExpressionField
    /\ panic.element # None
    /\ FirstKidIs(doc, panic.element, {"Element"})
    /\ \E t \in Kids(doc, panic.element) : doc[t].kind = "Text"
    /\ ~result.some

(* C5 as claimed: the failure reported is that of the failing element that *)
(* comes first in the document.                                            *)

BehindNext(d, f, e) ==
    \E w \in 1..Len(d) :
        /\ d[w].kind = "Element"
        /\ d[w].name = "next"
        /\ IsAncestor(d, w, f)
        /\ ~IsAncestor(d, w, e)
        /\ IsAncestor(d, d[w].parent, e)

(* C5 as amended: the call ends with a Program or with one failure, and    *)
(* the failure reported is the first in build order: the earliest failing  *)
(* element of the document, except that the failing elements inside an     *)
(* element's "next" child come after those in its other children.          *)

----------------------------------------------------------------------------
(* Termination *)

Finished == outcome \in {"returned", "panicked"}

NoRebuild == \A i, j \in DOMAIN built : built[i] = built[j] => i = j

\* a slot's chain starts below the block that holds the slot, and a chain's
\* current element is its start or below it
RecursionDescends ==
    \A k \in DOMAIN stack :
        stack[k].fn = "StatementBody::new" /\ stack[k].first_block # None =>
            /\ \/ stack[k].block_el = stack[k].first_block
               \/ IsAncestor(doc, stack[k].first_block, stack[k].block_el)
            /\ k > 1 /\ stack[k - 1].fn = "Block::new" =>
                   IsAncestor(doc, stack[k - 1].block_el, stack[k].first_block)

\* a step of a chain goes to a strict descendant
ChainDescends ==
    \A k \in DOMAIN stack \cap DOMAIN stack' :
        /\ stack[k].fn = "StatementBody::new"
        /\ stack'[k].fn = "StatementBody::new"
        /\ stack'[k].block_el # stack[k].block_el
        => IsAncestor(doc, stack[k].block_el, stack'[k].block_el)

RECURSIVE BlocksIn(_)
RECURSIVE BlocksInSlots(_, _)
BlocksIn(blocks) ==
    IF blocks = <<>> THEN 0
    ELSE 1 + BlocksInSlots(Head(blocks).statements, DOMAIN Head(blocks).statements)
           + BlocksIn(Tail(blocks))

BlocksInSlots(statements, names) ==
    IF names = {} THEN 0
    ELSE LET n == CHOOSE x \in names : TRUE
         IN BlocksIn(statements[n].blocks) + BlocksInSlots(statements, names \ {n})

RECURSIVE BlocksInGroups(_)
BlocksInGroups(groups) ==
    IF groups = <<>> THEN 0
    ELSE BlocksIn(Head(groups).blocks) + BlocksInGroups(Tail(groups))

BoundedBlocks ==
    /\ Len(built) <= Cardinality({i \in 1..Len(doc) : doc[i].kind = "Element"})
    /\ outcome = "returned" =>
           BlocksInGroups(result.program.groups)
               <= Cardinality({i \in 1..Len(doc) : doc[i].kind = "Element"})

(* C10: the call ends; the chain loop and the recursion move to strict     *)
(* descendants, no element is built twice and a returned Program holds no  *)
(* more blocks than the document has elements.                             *)

C10_Terminates ==
    /\ <>Finished
    /\ [](NoRebuild /\ RecursionDescends /\ BoundedBlocks)
    /\ [][ChainDescends]_vars

\* a Program was returned with a block whose slot holds a chain of two blocks
C10_Witness ==
    /\ outcome = "returned"
    /\ Len(built) = 3
    /\ Len(result.program.groups) = 1
    /\ Len(result.program.groups[1].blocks) = 1
    /\ BlocksInGroups(result.program.groups) = 3

====
